---- MODULE Spec2Model ----
(***************************************************************************)
(* Transport management system: the order registry (OrderManagement), the  *)
(* drag-and-drop scheduling calendar (ScheduleCalendar) and the order ->   *)
(* (date, time slot) mapping it keeps.                                     *)
(*                                                                         *)
(* Representation                                                          *)
(*  - a Date is its time value, counted in hours since 1970-01-01T00:00Z   *)
(*    (the code counts milliseconds; nothing below looks inside an hour);  *)
(*  - "YYYY-MM-DD" strings are tuples <<year, month, day>> (month 1..12),  *)
(*    "HH:MM" labels are tuples <<hour, minute>>;                          *)
(*  - an order id `ORD-${t}` is <<t>>, `ORD-${t}-${i}` is <<t, i>>;        *)
(*  - a null object reference is the record Null, a null order id NullId,  *)
(*    a null string NullString and an absent string field Undefined.       *)
(***************************************************************************)
EXTENDS Integers, Sequences, FiniteSets, TLC

\* ------------------------------------------------------------------ bounds
MaxOrders == 2      \* longest order collection explored
MaxSlots == 2       \* time slots of a day that are used as drop targets
MaxNavDays == 8     \* days the calendar is navigated away from a page load
MaxEmployees == 4   \* longest employee list explored

LocalOffsetHours == 2   \* local time = UTC + 2 (no DST change in the window)

\* day columns of the displayed week that are used as drop targets
TargetColumns == {1, 7}
\* ids ORD-0, ORD-1 occur in stored and imported order files
StoredIds == {<<0>>, <<1>>}

\* clock readings after page load
Ticks == {0, 1}
\* contents of the test-order count field
BatchSizes == {0, 1}
\* the employees with role Driver, and the values of the form's employee select
Drivers == {"EMP-1", "EMP-3"}
EmployeeChoices == {"", "EMP-2"}

\* null object reference, null order id, null / undefined string
Null == [null |-> TRUE]
NullId == <<>>
NullString == "null"
NoDate == <<>>
Undefined == "undefined"

\* ------------------------------------------------- ECMAScript date algebra
DayFromYear(y) ==
  365 * (y - 1970) + ((y - 1969) \div 4) - ((y - 1901) \div 100) + ((y - 1601) \div 400)

InLeapYear(y) == (y % 4 = 0 /\ y % 100 # 0) \/ y % 400 = 0

\* day-in-year of the first day of month m (0-based, m = 12 is next January)
MonthStart(y, m) ==
  LET leap == IF InLeapYear(y) THEN 1 ELSE 0
      tab == <<0, 31, 59 + leap, 90 + leap, 120 + leap, 151 + leap, 181 + leap,
               212 + leap, 243 + leap, 273 + leap, 304 + leap, 334 + leap, 365 + leap>>
  IN tab[m + 1]

Day(t) == t \div 24
HourFromTime(t) == t % 24
\* the year y with DayFromYear(y) <= Day(t) < DayFromYear(y + 1)
YearFromTime(t) ==
  CHOOSE y \in (1970 + Day(t) \div 366)..(1970 + Day(t) \div 365) :
    DayFromYear(y) <= Day(t) /\ Day(t) < DayFromYear(y + 1)
DayWithinYear(t) == Day(t) - DayFromYear(YearFromTime(t))
MonthFromTime(t) ==
  CHOOSE m \in 0..11 : MonthStart(YearFromTime(t), m) <= DayWithinYear(t)
                       /\ DayWithinYear(t) < MonthStart(YearFromTime(t), m + 1)
DateFromTime(t) == DayWithinYear(t) - MonthStart(YearFromTime(t), MonthFromTime(t)) + 1
WeekDay(t) == (Day(t) + 4) % 7

\* MakeDay(year, month, date) for month in 0..11 and any integer date
MakeDay(y, m, dt) == DayFromYear(y) + MonthStart(y, m) + dt - 1

LocalTime(t) == t + LocalOffsetHours
UTC(t) == t - LocalOffsetHours

\* Date.prototype.getDay / getDate / setDate (local time)
getDay(date) == WeekDay(LocalTime(date))
getDate(date) == DateFromTime(LocalTime(date))
setDate(date, dt) ==
  LET lt == LocalTime(date)
  IN UTC(MakeDay(YearFromTime(lt), MonthFromTime(lt), dt) * 24 + HourFromTime(lt))

\* date.toISOString().split('T')[0]
toISODate(date) == <<YearFromTime(date), MonthFromTime(date) + 1, DateFromTime(date)>>

\* new Date(y, m, d, h) in local time (m is 0-based)
LocalDate(y, m, d, h) == UTC(MakeDay(y, m, d) * 24 + h)

\* clock readings at page load: Sat 2024-06-01 00:00 and 10:00 local time
StartTimes == {LocalDate(2024, 5, 1, 0), LocalDate(2024, 5, 1, 10)}
\* clock readings at page load next to a year end and a leap day: Mon
\* 2024-12-30 10:00 and Tue 2024-02-27 10:00 local time
NavStartTimes == {LocalDate(2024, 11, 30, 10), LocalDate(2024, 1, 27, 10)}
ClockStarts == StartTimes \cup NavStartTimes

\* ------------------------------------------------------------------- state
VARIABLES
  orders,                \* OrderManagement: Order[] (the calendar's orders prop)
  selectedOrders,        \* OrderManagement: Set<string> of order ids
  isAssignMode,          \* OrderManagement: boolean
  selectedDriver,        \* OrderManagement: driver id | null (driver filter)
  isFormOpen,            \* OrderManagement: boolean
  editingOrderId,        \* OrderManagement: order id | null
  activeTab,             \* OrderManagement: 'all' | 'unassigned' | 'assigned' | 'finished'
  searchQuery,           \* OrderManagement: string
  sortField,             \* OrderManagement: string | null
  sortDirection,         \* OrderManagement: 'asc' | 'desc'
  dateRangeStart,        \* OrderManagement: "YYYY-MM-DD" | ''
  dateRangeEnd,          \* OrderManagement: "YYYY-MM-DD" | ''
  dateRangeType,         \* OrderManagement: 'pickup' | 'delivery'
  timeZone,              \* the browser's offset from UTC in hours (fixed per run)
  now,                   \* wall clock, the value Date.now() returns
  viewMode,              \* ScheduleCalendar: 'week' | 'day'
  currentDate,           \* ScheduleCalendar: anchor Date
  scheduledOrders,       \* ScheduleCalendar: ScheduledOrder[]
  draggedOrder,          \* ScheduleCalendar: Order | null
  draggedScheduledOrder, \* ScheduleCalendar: ScheduledOrder | null
  dragSource,            \* browser drag session: "none" | "sidebar" | "block"
  localStorage,          \* the browser's localStorage: key -> stored text
  quotaExceeded,         \* whether localStorage.setItem throws at present
  employees,             \* OrderManagement: Employee[] (re-read from storage)
  pageEmployees,         \* Employees page: Employee[]
  equipment,             \* Equipment page: Equipment[]
  event                  \* the user event handled last (history)

vars == <<orders, selectedOrders, isAssignMode, selectedDriver, isFormOpen,
          editingOrderId, activeTab, searchQuery, sortField, sortDirection,
          dateRangeStart, dateRangeEnd, dateRangeType, timeZone, now, viewMode, currentDate, scheduledOrders,
          draggedOrder, draggedScheduledOrder, dragSource, localStorage,
          quotaExceeded, employees, pageEmployees, equipment, event>>

selectionVars == <<selectedOrders, isAssignMode>>
formVars == <<isFormOpen, editingOrderId>>
sortVars == <<sortField, sortDirection>>
dateRangeVars == <<dateRangeStart, dateRangeEnd, dateRangeType>>
viewVars == <<activeTab, searchQuery, sortVars, dateRangeVars, timeZone>>
storeVars == <<localStorage, quotaExceeded, employees, pageEmployees, equipment>>
registryVars == <<orders, selectionVars, selectedDriver, formVars, viewVars, now,
                  storeVars>>
calendarVars == <<viewMode, currentDate, scheduledOrders, draggedOrder,
                  draggedScheduledOrder, dragSource>>
dragVars == <<draggedOrder, draggedScheduledOrder, dragSource>>

\* --------------------------------------------------------------- the types
\* interface Order (cargoDescription and equipmentType, which no operation
\* below reads, left out); pickupTime and deliverBeforeTime are the
\* "YYYY-MM-DDTHH:MM" strings of a datetime-local input, <<y, m, d, h>>
OrderOf(id, status, driverId, employeeId, customer, price, pickupTime, deliverBeforeTime) ==
  [id |-> id, status |-> status, driverId |-> driverId, employeeId |-> employeeId,
   customer |-> customer, price |-> price,
   pickupTime |-> pickupTime, pickupAddress |-> "Oslo",
   deliverBeforeTime |-> deliverBeforeTime, deliverBeforeAddress |-> "Bergen"]

\* an order whose customer, price and times are those of one filled-in form
Order(id, status, driverId, employeeId) ==
  OrderOf(id, status, driverId, employeeId, "Acme", 100,
          <<2024, 6, 3, 10>>, <<2024, 6, 3, 14>>)

\* interface Employee and interface Equipment (the fields the pages' list
\* operations read)
Employee(id, name, role) == [id |-> id, name |-> name, role |-> role]
EquipmentItem(id, name) == [id |-> id, name |-> name]

\* ------------------------------------------------------------- utils/storage
StorageKeys == {"orders", "employees", "drivers", "equipment"}

\* the optional fields of the stored records: JSON.stringify leaves out a
\* property whose value is undefined, and a read of a property that a parsed
\* object lacks gives undefined
OptionalFields == {"driverId", "employeeId", "status", "role"}
WithoutUndefined(object) ==
  LET absent == {f \in OptionalFields \cap DOMAIN object : object[f] = Undefined}
  IN IF absent = {} THEN object ELSE [f \in DOMAIN object \ absent |-> object[f]]
ReadAs(object, fields) ==
  [f \in fields |-> IF f \in DOMAIN object THEN object[f] ELSE Undefined]
OrderFields == DOMAIN Order(NullId, Undefined, Undefined, Undefined)
EmployeeFields == {"id", "name", "role"}
\* the parsed array as the order page and the employees page read it
AsOrders(array) == [i \in DOMAIN array |-> ReadAs(array[i], OrderFields)]
AsEmployees(array) == [i \in DOMAIN array |-> ReadAs(array[i], EmployeeFields)]

\* what localStorage holds under a key: nothing (getItem gives null), the
\* empty string, a text that is no JSON, or the JSON text of an array
NoItem == [kind |-> "null", array |-> <<>>]
EmptyText == [kind |-> "empty", array |-> <<>>]
CorruptText == [kind |-> "corrupt", array |-> <<>>]
JSONstringify(data) ==
  [kind |-> "json", array |-> [i \in DOMAIN data |-> WithoutUndefined(data[i])]]
\* JSON.parse: the value, or a SyntaxError
JSONparse(text) ==
  IF text.kind = "json" THEN [throws |-> FALSE, value |-> text.array]
  ELSE [throws |-> TRUE, value |-> <<>>]

\* a saveToStorage that writes nothing
saveToStorageNothing(store, key, data, full) == [raised |-> FALSE, store |-> store]

\* saveToStorage: the storage it leaves and whether it raised to its caller
saveToStorage(store, key, data, full) ==
  IF full
  THEN [raised |-> FALSE, store |-> store]
  ELSE [raised |-> FALSE, store |-> [store EXCEPT ![key] = JSONstringify(data)]]

\* a loadFromStorage without its try / catch
loadFromStorageUncaught(store, key, defaultValue) ==
  LET stored == store[key]
  IN IF stored.kind \notin {"null", "empty"}
     THEN [raised |-> JSONparse(stored).throws, value |-> JSONparse(stored).value]
     ELSE [raised |-> FALSE, value |-> defaultValue]

\* loadFromStorage: the value it returns and whether it raised to its caller
loadFromStorage(store, key, defaultValue) ==
  LET stored == store[key]
  IN IF stored.kind \notin {"null", "empty"}
     THEN IF JSONparse(stored).throws
          THEN [raised |-> FALSE, value |-> defaultValue]
          ELSE [raised |-> FALSE, value |-> JSONparse(stored).value]
     ELSE [raised |-> FALSE, value |-> defaultValue]

\* useEffect(() => saveToStorage(StorageKeys.ORDERS, orders), [orders]): runs
\* after a handler that handed a new array to setOrders
SaveOrdersEffect(ran) ==
  /\ localStorage' = IF ran
                     THEN saveToStorage(localStorage, "orders", orders', quotaExceeded).store
                     ELSE localStorage
  /\ UNCHANGED <<quotaExceeded, employees, pageEmployees, equipment>>

\* interface ScheduledOrder
ScheduledOrder(orderId, date, timeSlot) ==
  [orderId |-> orderId, date |-> date, timeSlot |-> timeSlot]

\* order collections found in localStorage or in an imported file
RECURSIVE SeqsUpTo(_, _)
SeqsUpTo(S, n) ==
  IF n = 0 THEN {<<>>}
  ELSE LET shorter == SeqsUpTo(S, n - 1)
       IN shorter \cup {Append(q, x) : q \in shorter, x \in S}

Ids(os) == {os[i].id : i \in DOMAIN os}

\* the order lists a JSON file holds whose orders have their ids in `ids`
OrderLists(ids) ==
  SeqsUpTo({Order(id, "active", Undefined, Undefined) : id \in ids}, MaxOrders)
\* the lists the page itself saved: no id occurs twice
SavedOrderLists(ids) ==
  {os \in OrderLists(ids) : Cardinality(Ids(os)) = Len(os)}

\* ------------------------------------------------- ScheduleCalendar: render
\* Number.prototype.toString: the decimal digits, one character each
DigitChars == <<"0", "1", "2", "3", "4", "5", "6", "7", "8", "9">>
RECURSIVE toString(_)
toString(n) ==
  IF n < 10 THEN <<DigitChars[n + 1]>>
  ELSE toString(n \div 10) \o <<DigitChars[(n % 10) + 1]>>

\* a padStart that leaves the text as it is
padStartNothing(text, length, fill) == text

\* String.prototype.padStart with a fill of one character
RECURSIVE padStart(_, _, _)
padStart(text, length, fill) ==
  IF Len(text) >= length THEN text ELSE padStart(<<fill>> \o text, length, fill)

\* the loop that pushes the labels hh:00 and hh:30 of the hours 6 .. 21
RECURSIVE timeSlotsFrom(_)
timeSlotsFrom(hour) ==
  IF hour < 22
  THEN << padStart(toString(hour), 2, "0") \o <<":", "0", "0">>,
          padStart(toString(hour), 2, "0") \o <<":", "3", "0">> >>
       \o timeSlotsFrom(hour + 1)
  ELSE <<>>
timeSlots == timeSlotsFrom(6)

\* a week that starts on the Monday
getWeekDaysFromMonday(date) ==
  LET diff == getDate(date) - getDay(date) + 1
      startOfWeek == setDate(date, diff)
  IN [i \in 1..7 |-> setDate(startOfWeek, getDate(startOfWeek) + (i - 1))]

\* getWeekDays() for the anchor `date`
getWeekDays(date) ==
  LET diff == getDate(date) - getDay(date)
      startOfWeek == setDate(date, diff)
  IN [i \in 1..7 |-> setDate(startOfWeek, getDate(startOfWeek) + (i - 1))]

\* the anchors the calendar can show, the dates of their weeks, and the two
\* date computations tabulated over them (evaluated once)
AnchorDates ==
  {s + h + 24 * k : s \in ClockStarts, h \in Ticks, k \in (0 - MaxNavDays)..MaxNavDays}
WeekDaysOf == [date \in AnchorDates |-> getWeekDays(date)]
ShownDates == AnchorDates \cup UNION {{WeekDaysOf[a][i] : i \in 1..7} : a \in AnchorDates}
DateStrOf == [date \in ShownDates |-> toISODate(date)]

displayDays == IF viewMode = "week" THEN WeekDaysOf[currentDate] ELSE <<currentDate>>

\* Array.prototype.find, given the indexes whose elements pass the test: the
\* first such element, or Null
Find(seq, passing) ==
  IF passing # {}
  THEN seq[CHOOSE i \in passing : \A j \in passing : i <= j]
  ELSE Null

\* the entry the calendar cell (dateStr, timeSlot) finds in scheduledOrders
ScheduledAt(dateStr, timeSlot) ==
  Find(scheduledOrders,
       {i \in DOMAIN scheduledOrders :
          scheduledOrders[i].date = dateStr /\ scheduledOrders[i].timeSlot = timeSlot})

getScheduledOrder(date, timeSlot) ==
  LET scheduled == ScheduledAt(DateStrOf[date], timeSlot)
  IN IF scheduled # Null
     THEN Find(orders, {i \in DOMAIN orders : orders[i].id = scheduled.orderId})
     ELSE Null

\* the sidebar list with the filter's test inverted
scheduledOrdersOfSidebar ==
  SelectSeq(orders, LAMBDA order :
    \E i \in DOMAIN scheduledOrders : scheduledOrders[i].orderId = order.id)

unscheduledOrders ==
  SelectSeq(orders, LAMBDA order :
    ~\E i \in DOMAIN scheduledOrders : scheduledOrders[i].orderId = order.id)

\* per-cell values computed while rendering the time-slot cell
hasOrder(date, timeSlot) == getScheduledOrder(date, timeSlot) # Null
isDraggingSameOrder(date, timeSlot) ==
  /\ draggedScheduledOrder # Null
  /\ draggedScheduledOrder.date = DateStrOf[date]
  /\ draggedScheduledOrder.timeSlot = timeSlot

\* the cell's onDragOver / onDrop gate
DropAllowed(date, timeSlot) ==
  ~hasOrder(date, timeSlot) \/ isDraggingSameOrder(date, timeSlot)

\* the cells a drop is tried on
TargetDates == {displayDays[i] : i \in DOMAIN displayDays \cap TargetColumns}
TargetSlots == {timeSlots[k] : k \in 1..MaxSlots}

\* ----------------------------------------------- ScheduleCalendar: handlers
\* scheduledOrders.filter((s) => s.orderId !== id)
WithoutOrder(scheduled, id) == SelectSeq(scheduled, LAMBDA s : s.orderId # id)

\* handleDrop without the removal of the order's previous entry
RescheduledKeepingOldEntry(scheduled, dragged, draggedScheduled, dateStr, timeSlot) ==
  IF /\ draggedScheduled # Null
     /\ draggedScheduled.date = dateStr
     /\ draggedScheduled.timeSlot = timeSlot
  THEN scheduled
  ELSE Append(scheduled, ScheduledOrder(dragged.id, dateStr, timeSlot))

\* handleDrop without the early return of a drop on the order's own slot
RescheduledWithoutSameSlotCheck(scheduled, dragged, draggedScheduled, dateStr, timeSlot) ==
  Append(WithoutOrder(scheduled, dragged.id), ScheduledOrder(dragged.id, dateStr, timeSlot))

\* the array handleDrop stores for a drop of `dragged` on (dateStr, timeSlot)
Rescheduled(scheduled, dragged, draggedScheduled, dateStr, timeSlot) ==
  LET updated == WithoutOrder(scheduled, dragged.id)
  IN IF /\ draggedScheduled # Null
        /\ draggedScheduled.date = dateStr
        /\ draggedScheduled.timeSlot = timeSlot
     THEN scheduled
     ELSE Append(updated, ScheduledOrder(dragged.id, dateStr, timeSlot))

\* handleSidebarDrop clearing the calendar instead of filtering it
UnscheduledEverything(scheduled, dragged) == <<>>

\* the array handleSidebarDrop stores
Unscheduled(scheduled, dragged) == WithoutOrder(scheduled, dragged.id)

\* sidebar item onDragStart={() => handleDragStart(order)}
DragStartSidebar(k) ==
  /\ dragSource = "none"
  /\ k \in DOMAIN unscheduledOrders
  /\ draggedOrder' = unscheduledOrders[k]
  /\ draggedScheduledOrder' = Null
  /\ dragSource' = "sidebar"
  /\ event' = [type |-> "dragstart"]
  /\ UNCHANGED <<registryVars, viewMode, currentDate, scheduledOrders>>

\* scheduled block onDragStart: handleScheduledOrderDragStart(scheduled, order)
DragStartBlock(date, timeSlot) ==
  /\ dragSource = "none"
  /\ hasOrder(date, timeSlot)
  /\ draggedScheduledOrder' = ScheduledAt(DateStrOf[date], timeSlot)
  /\ draggedOrder' = getScheduledOrder(date, timeSlot)
  /\ dragSource' = "block"
  /\ event' = [type |-> "dragstart"]
  /\ UNCHANGED <<registryVars, viewMode, currentDate, scheduledOrders>>

\* dragend at the drag source: only the scheduled block has an onDragEnd
\* handler; it clears both references
DragEnd(order, scheduled) ==
  /\ draggedOrder' = IF dragSource = "block" THEN Null ELSE order
  /\ draggedScheduledOrder' = IF dragSource = "block" THEN Null ELSE scheduled
  /\ dragSource' = "none"

\* the onOrderScheduled callback of the page that renders the calendar:
\* scheduling is independent of the registry, the orders stay as they are
onOrderScheduled(os, orderId, date, timeSlot) == os

\* handleDrop got past its same-slot return and calls onOrderScheduled
CallsOnOrderScheduled(dragged, draggedScheduled, dateStr, timeSlot) ==
  ~(/\ draggedScheduled # Null
    /\ draggedScheduled.date = dateStr
    /\ draggedScheduled.timeSlot = timeSlot)

\* the dragged item is released over the cell (date, timeSlot): the cell's
\* gate, handleDrop when the gate lets the drop through, then dragend
DropOnSlot(date, timeSlot) ==
  /\ dragSource # "none"
  /\ event' = [type |-> "drop", date |-> DateStrOf[date], timeSlot |-> timeSlot,
               order |-> draggedOrder, from |-> draggedScheduledOrder]
  /\ IF DropAllowed(date, timeSlot) /\ draggedOrder # Null
     THEN /\ scheduledOrders' = Rescheduled(scheduledOrders, draggedOrder,
                                   draggedScheduledOrder, DateStrOf[date], timeSlot)
          /\ orders' = IF CallsOnOrderScheduled(draggedOrder, draggedScheduledOrder,
                                                DateStrOf[date], timeSlot)
                       THEN onOrderScheduled(orders, draggedOrder.id, date, timeSlot)
                       ELSE orders
          /\ DragEnd(Null, Null)
     ELSE /\ scheduledOrders' = scheduledOrders
          /\ orders' = orders
          /\ DragEnd(draggedOrder, draggedScheduledOrder)
  /\ UNCHANGED <<selectionVars, selectedDriver, formVars, viewVars, now,
                 storeVars, viewMode, currentDate>>

\* the dragged item is released over the sidebar: handleSidebarDrop, dragend
DropOnSidebar ==
  /\ dragSource # "none"
  /\ event' = [type |-> "sidebardrop", order |-> draggedOrder,
               from |-> draggedScheduledOrder]
  /\ IF draggedOrder # Null /\ draggedScheduledOrder # Null
     THEN /\ scheduledOrders' = Unscheduled(scheduledOrders, draggedOrder)
          /\ DragEnd(Null, Null)
     ELSE /\ scheduledOrders' = scheduledOrders
          /\ DragEnd(draggedOrder, draggedScheduledOrder)
  /\ UNCHANGED <<registryVars, viewMode, currentDate>>

\* the drag is released outside every drop zone or cancelled: dragend only
DragCancel ==
  /\ dragSource # "none"
  /\ event' = [type |-> "dragcancel"]
  /\ DragEnd(draggedOrder, draggedScheduledOrder)
  /\ UNCHANGED <<registryVars, viewMode, currentDate, scheduledOrders>>

\* a navigation that steps a week in either view
navigateDateAlwaysWeek(date, mode, direction) ==
  setDate(date, getDate(date) + (IF direction = "next" THEN 7 ELSE -7))

\* navigateDate: the date it hands to setCurrentDate
navigateDate(date, mode, direction) ==
  IF mode = "week"
  THEN setDate(date, getDate(date) + (IF direction = "next" THEN 7 ELSE -7))
  ELSE setDate(date, getDate(date) + (IF direction = "next" THEN 1 ELSE -1))

\* the Previous / Next buttons, within MaxNavDays days of a page load
NavigateDate(direction) ==
  /\ dragSource = "none"
  /\ navigateDate(currentDate, viewMode, direction) \in AnchorDates
  /\ currentDate' = navigateDate(currentDate, viewMode, direction)
  /\ event' = [type |-> "nav", direction |-> direction, from |-> currentDate]
  /\ UNCHANGED <<registryVars, viewMode, scheduledOrders, dragVars>>

\* the Today button
GoToToday ==
  /\ dragSource = "none"
  /\ currentDate' = now
  /\ event' = [type |-> "today"]
  /\ UNCHANGED <<registryVars, viewMode, scheduledOrders, dragVars>>

\* Day / Week buttons
SetViewMode(mode) ==
  /\ dragSource = "none"
  /\ viewMode' = mode
  /\ event' = [type |-> "viewmode"]
  /\ UNCHANGED <<registryVars, currentDate, scheduledOrders, dragVars>>

\* ------------------------------------------------ OrderManagement: handlers
\* `ORD-${Date.now()}` and `ORD-${Date.now()}-${i}`
NewOrderId(t) == <<t>>
TestOrderId(t, i) == <<t, i>>

\* the form's fields as the user left them when the form is submitted
\* (formData, reduced to the employee select)
FormData == [employeeId : EmployeeChoices]

\* employee.name of the drivers
DriverName == [driverId \in Drivers |-> IF driverId = "EMP-1" THEN "Ann" ELSE "Bob"]

\* String.prototype.toLowerCase over the texts that occur
toLowerCase(text) ==
  CASE text \in {"Acme", "ACME"} -> "acme"
    [] text = "Zeta" -> "zeta"
    [] text = "Oslo" -> "oslo"
    [] text = "Bergen" -> "bergen"
    [] text \in {"Ann", "ANN"} -> "ann"
    [] text = "Bob" -> "bob"
    [] text = "ORD" -> "ord"
    [] OTHER -> text

\* String.prototype.includes over the lower-cased texts that occur (none of
\* them is part of another one; the empty string is part of each)
includes(text, query) == query = "" \/ query = text
\* order.id.toLowerCase().includes(query): every id reads "ord-" and digits
idIncludes(id, query) == query \in {"", "ord"}

\* JavaScript truthiness of an optional string field
Truthy(text) == text # Undefined /\ text # NullString /\ text # ""

\* new Date("YYYY-MM-DDTHH:MM"): the string read as local time
ParseLocalDateTime(text, tz) == MakeDay(text[1], text[2] - 1, text[3]) * 24 + text[4] - tz
\* new Date("YYYY-MM-DD"): the string read as UTC midnight
ParseDateOnly(text) == MakeDay(text[1], text[2] - 1, text[3]) * 24
\* date.setHours(23, 59, 59, 999): the last instant of hour 23 of the local
\* day of t, named by its hour (a whole hour h is later iff h > this hour)
setHoursEndOfDay(t, tz) == Day(t + tz) * 24 + 23 - tz

\* a tab test whose assigned tab keeps finished orders
matchesTabAssignedKeepsFinished(order, tab) ==
  CASE tab = "all" -> TRUE
    [] tab = "unassigned" -> ~Truthy(order.driverId)
    [] tab = "assigned" -> Truthy(order.driverId)
    [] tab = "finished" -> order.status = "finished"
    [] OTHER -> FALSE

\* the four tests of the filter callback of filteredOrders
matchesTab(order, tab) ==
  CASE tab = "all" -> TRUE
    [] tab = "unassigned" -> ~Truthy(order.driverId)
    [] tab = "assigned" -> Truthy(order.driverId) /\ order.status # "finished"
    [] tab = "finished" -> order.status = "finished"
    [] OTHER -> FALSE

matchesDriver(order, driver) == ~(Truthy(driver) /\ order.driverId # driver)

matchesSearch(order, search) ==
  IF search = "" THEN TRUE
  ELSE LET query == toLowerCase(search)
       IN \/ idIncludes(order.id, query)
          \/ includes(toLowerCase(order.customer), query)
          \/ includes(toLowerCase(order.pickupAddress), query)
          \/ includes(toLowerCase(order.deliverBeforeAddress), query)
          \/ /\ order.driverId \in Drivers
             /\ includes(toLowerCase(DriverName[order.driverId]), query)

matchesDateRange(order, type, start, end, tz) ==
  IF start # NoDate \/ end # NoDate
  THEN LET dateField == IF type = "pickup" THEN order.pickupTime
                                           ELSE order.deliverBeforeTime
           orderDate == ParseLocalDateTime(dateField, tz)
       IN /\ start # NoDate => ~(orderDate < ParseDateOnly(start))
          /\ end # NoDate => ~(orderDate > setHoursEndOfDay(ParseDateOnly(end), tz))
  ELSE TRUE

\* the values the sort callback compares, strings by their rank
SortValue(order, field, tz) ==
  CASE field = "customer" -> IF toLowerCase(order.customer) = "acme" THEN 0 ELSE 1
    [] field = "price" -> order.price
    [] field = "pickupTime" -> ParseLocalDateTime(order.pickupTime, tz)
    [] field = "deliverBeforeTime" -> ParseLocalDateTime(order.deliverBeforeTime, tz)
    [] field = "status" -> IF order.status = "finished" THEN 1 ELSE 0

\* a sort callback that falls back to the customer when no field is chosen
compareByCustomerWhenUnset(a, b, field, direction, tz) ==
  LET f == IF field \in {"customer", "price", "pickupTime", "deliverBeforeTime", "status"}
           THEN field ELSE "customer"
      aValue == SortValue(a, f, tz)
      bValue == SortValue(b, f, tz)
  IN IF aValue < bValue THEN (IF direction = "asc" THEN -1 ELSE 1)
     ELSE IF aValue > bValue THEN (IF direction = "asc" THEN 1 ELSE -1)
     ELSE 0

\* the sort callback: negative, zero or positive
compare(a, b, field, direction, tz) ==
  IF field \notin {"customer", "price", "pickupTime", "deliverBeforeTime", "status"}
  THEN 0
  ELSE LET aValue == SortValue(a, field, tz)
           bValue == SortValue(b, field, tz)
       IN IF aValue < bValue THEN (IF direction = "asc" THEN -1 ELSE 1)
          ELSE IF aValue > bValue THEN (IF direction = "asc" THEN 1 ELSE -1)
          ELSE 0

\* Array.prototype.sort (stable): each element goes behind the elements
\* that do not compare greater than it
RECURSIVE Sorted(_, _, _, _)
Sorted(seq, field, direction, tz) ==
  IF seq = <<>> THEN <<>>
  ELSE LET front == Sorted(SubSeq(seq, 1, Len(seq) - 1), field, direction, tz)
           last == seq[Len(seq)]
           keep == {i \in DOMAIN front : compare(front[i], last, field, direction, tz) <= 0}
           n == IF keep = {} THEN 0 ELSE CHOOSE i \in keep : \A j \in keep : j <= i
       IN SubSeq(front, 1, n) \o <<last>> \o SubSeq(front, n + 1, Len(front))

\* the rows of the order table
filteredOrders ==
  Sorted(SelectSeq(orders, LAMBDA order :
           /\ matchesTab(order, activeTab)
           /\ matchesDriver(order, selectedDriver)
           /\ matchesSearch(order, searchQuery)
           /\ matchesDateRange(order, dateRangeType, dateRangeStart, dateRangeEnd,
                               timeZone)),
         sortField, sortDirection, timeZone)

Tick ==
  /\ \E s \in ClockStarts : now >= s /\ now + 1 - s \in Ticks
  /\ now' = now + 1
  /\ event' = [type |-> "tick"]
  /\ UNCHANGED <<orders, storeVars, selectionVars, selectedDriver, formVars, viewVars, calendarVars>>

\* an edit submit that writes the status of a new order
EditedOrderAsNew(order, form) ==
  [order EXCEPT !.status = "active",
                !.employeeId = IF form.employeeId = "" THEN Undefined ELSE form.employeeId]

\* the order an edit submit writes: every form field, id / driver / status kept
EditedOrder(order, form) ==
  [order EXCEPT !.employeeId = IF form.employeeId = "" THEN Undefined ELSE form.employeeId]

\* the order a create submit appends
CreatedOrder(t, form) ==
  Order(NewOrderId(t), "active", Undefined,
        IF form.employeeId = "" THEN Undefined ELSE form.employeeId)

\* the orders generateRandomOrders(count) appends
GeneratedOrders(t, count) ==
  [i \in 1..count |-> Order(TestOrderId(t, i - 1), "active", Undefined, Undefined)]

\* an assignment that spares the orders that already have a driver
AssignedOrderIfFree(order, driverId) ==
  IF Truthy(order.driverId) THEN order ELSE [order EXCEPT !.driverId = driverId]

AssignedOrder(order, driverId) == [order EXCEPT !.driverId = driverId]
UnassignedOrder(order) == [order EXCEPT !.driverId = Undefined]
FinishedOrder(order) == [order EXCEPT !.status = "finished"]

\* orders.map(...) of handleSubmit, handleAssignToDriver, handleUnassignOrders
\* and handleMarkAsFinished
EditedOrders(os, id, form) ==
  [i \in DOMAIN os |-> IF os[i].id = id THEN EditedOrder(os[i], form) ELSE os[i]]
AssignedOrders(os, ids, driverId) ==
  [i \in DOMAIN os |-> IF os[i].id \in ids THEN AssignedOrder(os[i], driverId) ELSE os[i]]
\* an unassign that forgets the selection test
UnassignedAllOrders(os, ids) == [i \in DOMAIN os |-> UnassignedOrder(os[i])]
UnassignedOrders(os, ids) ==
  [i \in DOMAIN os |-> IF os[i].id \in ids THEN UnassignedOrder(os[i]) ELSE os[i]]
FinishedOrders(os, ids) ==
  [i \in DOMAIN os |-> IF os[i].id \in ids THEN FinishedOrder(os[i]) ELSE os[i]]

\* orders.filter((order) => !selectedOrders.has(order.id))
WithoutSelected(os, ids) == SelectSeq(os, LAMBDA order : order.id \notin ids)

HandleCreateOrder ==
  /\ dragSource = "none"
  /\ editingOrderId' = NullId
  /\ isFormOpen' = TRUE
  /\ event' = [type |-> "view"]
  /\ UNCHANGED <<orders, storeVars, selectionVars, selectedDriver, now, viewVars, calendarVars>>

\* double click on a table row
HandleEditOrder(k) ==
  /\ dragSource = "none"
  /\ k \in DOMAIN filteredOrders
  /\ editingOrderId' = filteredOrders[k].id
  /\ isFormOpen' = TRUE
  /\ event' = [type |-> "view"]
  /\ UNCHANGED <<orders, storeVars, selectionVars, selectedDriver, now, viewVars, calendarVars>>

HandleCloseForm ==
  /\ dragSource = "none"
  /\ isFormOpen
  /\ isFormOpen' = FALSE
  /\ editingOrderId' = NullId
  /\ event' = [type |-> "view"]
  /\ UNCHANGED <<orders, storeVars, selectionVars, selectedDriver, now, viewVars, calendarVars>>

HandleSubmit(formData) ==
  /\ dragSource = "none"
  /\ isFormOpen
  /\ IF editingOrderId # NullId
     THEN /\ orders' = EditedOrders(orders, editingOrderId, formData)
          /\ event' = [type |-> "edit", id |-> editingOrderId]
     ELSE /\ Len(orders) < MaxOrders
          /\ orders' = Append(orders, CreatedOrder(now, formData))
          /\ event' = [type |-> "create"]
  /\ isFormOpen' = FALSE
  /\ editingOrderId' = NullId
  /\ UNCHANGED <<selectionVars, selectedDriver, now, viewVars, calendarVars>>
  /\ SaveOrdersEffect(TRUE)

HandleGenerateTestOrders(count) ==
  /\ dragSource = "none"
  /\ Len(orders) + count <= MaxOrders
  /\ IF count > 0 /\ count <= 100
     THEN orders' = orders \o GeneratedOrders(now, count)
     ELSE orders' = orders
  /\ event' = [type |-> "generate"]
  /\ UNCHANGED <<selectionVars, selectedDriver, formVars, now, viewVars, calendarVars>>
  /\ SaveOrdersEffect(count > 0 /\ count <= 100)

\* row checkbox
HandleSelectOrder(k) ==
  /\ dragSource = "none"
  /\ k \in DOMAIN filteredOrders
  /\ LET orderId == filteredOrders[k].id
     IN selectedOrders' = IF orderId \in selectedOrders
                          THEN selectedOrders \ {orderId}
                          ELSE selectedOrders \cup {orderId}
  /\ event' = [type |-> "view"]
  /\ UNCHANGED <<orders, storeVars, isAssignMode, selectedDriver, formVars, now, viewVars, calendarVars>>

HandleSelectAll ==
  /\ dragSource = "none"
  /\ selectedOrders' = IF Ids(filteredOrders) \subseteq selectedOrders
                       THEN {}
                       ELSE Ids(filteredOrders)
  /\ event' = [type |-> "view"]
  /\ UNCHANGED <<orders, storeVars, isAssignMode, selectedDriver, formVars, now, viewVars, calendarVars>>

\* the bulk actions bar is rendered while selectedOrders.size > 0
ToggleAssignMode ==
  /\ dragSource = "none"
  /\ selectedOrders # {}
  /\ isAssignMode' = ~isAssignMode
  /\ event' = [type |-> "view"]
  /\ UNCHANGED <<orders, storeVars, selectedOrders, selectedDriver, formVars, now, viewVars, calendarVars>>

ClearSelection ==
  /\ dragSource = "none"
  /\ selectedOrders # {}
  /\ selectedOrders' = {}
  /\ isAssignMode' = FALSE
  /\ event' = [type |-> "view"]
  /\ UNCHANGED <<orders, storeVars, selectedDriver, formVars, now, viewVars, calendarVars>>

\* a driver count that leaves out the finished orders
getDriverActiveOrdersNotFinished(driverId) ==
  Len(SelectSeq(orders, LAMBDA o : o.driverId = driverId /\ o.status # "finished"))

\* getDriverActiveOrders: the count shown on a driver card
getDriverActiveOrders(driverId) ==
  Len(SelectSeq(orders, LAMBDA o : o.driverId = driverId))

\* the sort state handleSort(field) leaves, as <<sortField, sortDirection>>,
\* when a click switches the field without resetting the direction
handleSortKeepingDirection(current, direction, field) ==
  IF current = field
  THEN <<current, IF direction = "asc" THEN "desc" ELSE "asc">>
  ELSE <<field, direction>>

\* the sort state handleSort(field) leaves, as <<sortField, sortDirection>>
handleSort(current, direction, field) ==
  IF current = field
  THEN <<current, IF direction = "asc" THEN "desc" ELSE "asc">>
  ELSE <<field, "asc">>

\* the column headers that call handleSort
SortHeaders == {"customer", "price", "pickupTime"}
Tabs == {"all", "unassigned", "assigned", "finished"}
SearchQueries == {"", "ACME", "bob"}
RangeDates == {<<2024, 6, 3>>}
TimeZones == {-5, 2}

HandleSort(field) ==
  /\ sortField' = handleSort(sortField, sortDirection, field)[1]
  /\ sortDirection' = handleSort(sortField, sortDirection, field)[2]
  /\ event' = [type |-> "sort", field |-> field, before |-> sortVars]
  /\ UNCHANGED <<orders, storeVars, selectionVars, selectedDriver, formVars, now, activeTab,
                 searchQuery, dateRangeVars, timeZone, calendarVars>>

SetActiveTab(tab) ==
  /\ activeTab' = tab
  /\ event' = [type |-> "view"]
  /\ UNCHANGED <<orders, storeVars, selectionVars, selectedDriver, formVars, now, searchQuery,
                 sortVars, dateRangeVars, timeZone, calendarVars>>

SetSearchQuery(query) ==
  /\ searchQuery' = query
  /\ event' = [type |-> "view"]
  /\ UNCHANGED <<orders, storeVars, selectionVars, selectedDriver, formVars, now, activeTab,
                 sortVars, dateRangeVars, timeZone, calendarVars>>

SetDateRangeType(type) ==
  /\ dateRangeType' = type
  /\ event' = [type |-> "view"]
  /\ UNCHANGED <<orders, storeVars, selectionVars, selectedDriver, formVars, now, activeTab,
                 searchQuery, sortVars, dateRangeStart, dateRangeEnd, timeZone,
                 calendarVars>>

SetDateRangeStart(date) ==
  /\ dateRangeStart' = date
  /\ event' = [type |-> "view"]
  /\ UNCHANGED <<orders, storeVars, selectionVars, selectedDriver, formVars, now, activeTab,
                 searchQuery, sortVars, dateRangeEnd, dateRangeType, timeZone,
                 calendarVars>>

SetDateRangeEnd(date) ==
  /\ dateRangeEnd' = date
  /\ event' = [type |-> "view"]
  /\ UNCHANGED <<orders, storeVars, selectionVars, selectedDriver, formVars, now, activeTab,
                 searchQuery, sortVars, dateRangeStart, dateRangeType, timeZone,
                 calendarVars>>

\* the Clear button, rendered while a bound is set
ClearDateRange ==
  /\ dateRangeStart # NoDate \/ dateRangeEnd # NoDate
  /\ dateRangeStart' = NoDate
  /\ dateRangeEnd' = NoDate
  /\ event' = [type |-> "view"]
  /\ UNCHANGED <<orders, storeVars, selectionVars, selectedDriver, formVars, now, activeTab,
                 searchQuery, sortVars, dateRangeType, timeZone, calendarVars>>

\* handleDriverClick: handleAssignToDriver in assign mode, else the filter
HandleDriverClick(driverId) ==
  /\ dragSource = "none"
  /\ IF isAssignMode
     THEN /\ IF selectedOrders # {}
             THEN /\ orders' = AssignedOrders(orders, selectedOrders, driverId)
                  /\ selectedOrders' = {}
                  /\ isAssignMode' = FALSE
             ELSE UNCHANGED <<orders, selectionVars>>
          /\ selectedDriver' = selectedDriver
          /\ event' = [type |-> "assign", driver |-> driverId, ids |-> selectedOrders]
     ELSE /\ selectedDriver' = IF selectedDriver = driverId THEN NullString ELSE driverId
          /\ event' = [type |-> "view"]
          /\ UNCHANGED <<orders, selectionVars>>
  /\ UNCHANGED <<formVars, now, viewVars, calendarVars>>
  /\ SaveOrdersEffect(isAssignMode /\ selectedOrders # {})

HandleUnassignOrders ==
  /\ dragSource = "none"
  /\ selectedOrders # {}
  /\ orders' = UnassignedOrders(orders, selectedOrders)
  /\ selectedOrders' = {}
  /\ event' = [type |-> "unassign", ids |-> selectedOrders]
  /\ UNCHANGED <<isAssignMode, selectedDriver, formVars, now, viewVars, calendarVars>>
  /\ SaveOrdersEffect(TRUE)

\* a mark-as-finished that also takes the finished orders off the calendar
HandleMarkAsFinishedUnscheduling(confirmed) ==
  /\ dragSource = "none"
  /\ selectedOrders # {}
  /\ IF confirmed
     THEN /\ orders' = FinishedOrders(orders, selectedOrders)
          /\ selectedOrders' = {}
          /\ scheduledOrders' =
               SelectSeq(scheduledOrders, LAMBDA s : s.orderId \notin selectedOrders)
     ELSE UNCHANGED <<orders, selectedOrders, scheduledOrders>>
  /\ event' = [type |-> "finish", confirmed |-> confirmed]
  /\ UNCHANGED <<isAssignMode, selectedDriver, formVars, now, viewVars, viewMode,
                 currentDate, dragVars>>
  /\ SaveOrdersEffect(confirmed)

HandleMarkAsFinished(confirmed) ==
  /\ dragSource = "none"
  /\ selectedOrders # {}
  /\ IF confirmed
     THEN /\ orders' = FinishedOrders(orders, selectedOrders)
          /\ selectedOrders' = {}
     ELSE UNCHANGED <<orders, selectedOrders>>
  /\ event' = [type |-> "finish", confirmed |-> confirmed]
  /\ UNCHANGED <<isAssignMode, selectedDriver, formVars, now, viewVars, calendarVars>>
  /\ SaveOrdersEffect(confirmed)

HandleDeleteSelected(confirmed) ==
  /\ dragSource = "none"
  /\ selectedOrders # {}
  /\ IF confirmed
     THEN /\ orders' = WithoutSelected(orders, selectedOrders)
          /\ selectedOrders' = {}
     ELSE UNCHANGED <<orders, selectedOrders>>
  /\ event' = [type |-> "delete", confirmed |-> confirmed]
  /\ UNCHANGED <<isAssignMode, selectedDriver, formVars, now, viewVars, calendarVars>>
  /\ SaveOrdersEffect(confirmed)

\* what a chosen file holds: a JSON array of orders, other JSON, or no JSON
Payloads(ids) ==
  [kind : {"array"}, data : OrderLists(ids)]
    \cup {[kind |-> "object", data |-> <<>>], [kind |-> "invalid", data |-> <<>>]}

\* an import that appends the file's orders to the current ones
ImportedOrdersMerged(os, payload, confirmed) ==
  IF payload.kind = "array" /\ confirmed THEN os \o payload.data ELSE os

\* the collection handleImportOrders leaves: setOrders(importedData) behind
\* Array.isArray and window.confirm
ImportedOrders(os, payload, confirmed) ==
  IF payload.kind = "array" /\ confirmed THEN payload.data ELSE os

\* handleImportOrders, from the file read to the last state update
HandleImportOrders(payload, confirmed) ==
  /\ dragSource = "none"
  /\ orders' = ImportedOrders(orders, payload, confirmed)
  /\ event' = [type |-> "import", accepted |-> payload.kind = "array" /\ confirmed]
  /\ UNCHANGED <<selectionVars, selectedDriver, formVars, now, viewVars, calendarVars>>
  /\ SaveOrdersEffect(payload.kind = "array" /\ confirmed)

\* the callback behind the sidebar's delete button removes the order
onOrderDelete(os, orderId) == SelectSeq(os, LAMBDA order : order.id # orderId)

\* delete button of the sidebar item k, behind window.confirm
SidebarDelete(k, confirmed) ==
  /\ dragSource = "none"
  /\ k \in DOMAIN unscheduledOrders
  /\ IF confirmed
     THEN orders' = onOrderDelete(orders, unscheduledOrders[k].id)
     ELSE orders' = orders
  /\ event' = [type |-> "sidebardelete", confirmed |-> confirmed]
  /\ UNCHANGED <<selectionVars, selectedDriver, formVars, now, viewVars, calendarVars>>
  /\ SaveOrdersEffect(confirmed)

\* ------------------------------------------- Employees and Equipment pages
\* `EMP-${Date.now()}`
NewEmployeeId(t) == "EMP-" \o ToString(t)
\* the role select of the employee form: no role, or Driver
EmployeeRoles == {"", "Driver"}

\* useEffect(() => saveToStorage(StorageKeys.EMPLOYEES, employees), [employees])
\* of the employees page
SaveEmployeesEffect(ran) ==
  localStorage' = IF ran
                  THEN saveToStorage(localStorage, "employees", pageEmployees',
                                     quotaExceeded).store
                  ELSE localStorage

\* handleSubmit of the employees page
HandleSubmitEmployee(role) ==
  /\ Len(pageEmployees) < MaxEmployees
  /\ \A i \in DOMAIN pageEmployees : pageEmployees[i].id # NewEmployeeId(now)
  /\ pageEmployees' = Append(pageEmployees,
                             Employee(NewEmployeeId(now), "Kim",
                                      IF role = "" THEN Undefined ELSE role))
  /\ SaveEmployeesEffect(TRUE)
  /\ event' = [type |-> "employee", confirmed |-> TRUE, id |-> NewEmployeeId(now)]
  /\ UNCHANGED <<orders, selectionVars, selectedDriver, formVars, viewVars, now,
                 quotaExceeded, employees, equipment, calendarVars>>

\* a delete of the employee that skips the confirmation
HandleDeleteEmployeeUnconfirmed(employeeId, confirmed) ==
  /\ \E i \in DOMAIN pageEmployees : pageEmployees[i].id = employeeId
  /\ pageEmployees' = SelectSeq(pageEmployees, LAMBDA employee : employee.id # employeeId)
  /\ SaveEmployeesEffect(TRUE)
  /\ event' = [type |-> "deleteemployee", confirmed |-> confirmed, id |-> employeeId]
  /\ UNCHANGED <<orders, selectionVars, selectedDriver, formVars, viewVars, now,
                 quotaExceeded, employees, equipment, calendarVars>>

\* handleDeleteEmployee, behind window.confirm
HandleDeleteEmployee(employeeId, confirmed) ==
  /\ \E i \in DOMAIN pageEmployees : pageEmployees[i].id = employeeId
  /\ pageEmployees' = IF confirmed
                      THEN SelectSeq(pageEmployees,
                                     LAMBDA employee : employee.id # employeeId)
                      ELSE pageEmployees
  /\ SaveEmployeesEffect(confirmed)
  /\ event' = [type |-> "deleteemployee", confirmed |-> confirmed, id |-> employeeId]
  /\ UNCHANGED <<orders, selectionVars, selectedDriver, formVars, viewVars, now,
                 quotaExceeded, employees, equipment, calendarVars>>

\* handleDeleteEquipment, behind window.confirm, and the save effect
HandleDeleteEquipment(equipmentId, confirmed) ==
  /\ \E i \in DOMAIN equipment : equipment[i].id = equipmentId
  /\ equipment' = IF confirmed
                  THEN SelectSeq(equipment, LAMBDA item : item.id # equipmentId)
                  ELSE equipment
  /\ localStorage' = IF confirmed
                     THEN saveToStorage(localStorage, "equipment", equipment',
                                        quotaExceeded).store
                     ELSE localStorage
  /\ event' = [type |-> "deleteequipment", confirmed |-> confirmed, id |-> equipmentId]
  /\ UNCHANGED <<orders, selectionVars, selectedDriver, formVars, viewVars, now,
                 quotaExceeded, employees, pageEmployees, calendarVars>>

\* a loadEmployees that keeps the list it has once it has one
loadEmployeesOnce ==
  /\ employees' = IF employees = <<>>
                  THEN AsEmployees(loadFromStorage(localStorage, "employees", <<>>).value)
                  ELSE employees
  /\ event' = [type |-> "loademployees"]
  /\ UNCHANGED <<orders, selectionVars, selectedDriver, formVars, viewVars, now,
                 localStorage, quotaExceeded, pageEmployees, equipment, calendarVars>>

\* the order page's employees: loadEmployees, called by the 1000 ms interval
\* and by the window's storage event
loadEmployees ==
  /\ employees' = AsEmployees(loadFromStorage(localStorage, "employees", <<>>).value)
  /\ event' = [type |-> "loademployees"]
  /\ UNCHANGED <<orders, selectionVars, selectedDriver, formVars, viewVars, now,
                 localStorage, quotaExceeded, pageEmployees, equipment, calendarVars>>

\* const drivers = employees.filter((employee) => employee.role === 'Driver')
drivers == SelectSeq(employees, LAMBDA employee : employee.role = "Driver")

\* the browser starts or stops refusing writes (quota used up by other data,
\* storage switched off)
QuotaChange ==
  /\ quotaExceeded' = ~quotaExceeded
  /\ event' = [type |-> "quota"]
  /\ UNCHANGED <<orders, selectionVars, selectedDriver, formVars, viewVars, now,
                 localStorage, employees, pageEmployees, equipment, calendarVars>>

\* another tab or the user's tools replace what a key holds
StorageWrite(key, text) ==
  /\ localStorage' = [localStorage EXCEPT ![key] = text]
  /\ event' = [type |-> "storage"]
  /\ UNCHANGED <<orders, selectionVars, selectedDriver, formVars, viewVars, now,
                 quotaExceeded, employees, pageEmployees, equipment, calendarVars>>

\* the order page is loaded again: the state initialisers read the storage,
\* then the save effect writes the orders back
MountOrderManagement ==
  /\ dragSource = "none"
  /\ orders' = AsOrders(loadFromStorage(localStorage, "orders", <<>>).value)
  /\ employees' = AsEmployees(loadFromStorage(localStorage, "employees", <<>>).value)
  /\ selectedOrders' = {}
  /\ isAssignMode' = FALSE
  /\ selectedDriver' = NullString
  /\ isFormOpen' = FALSE
  /\ editingOrderId' = NullId
  /\ activeTab' = "all"
  /\ searchQuery' = ""
  /\ sortField' = NullString
  /\ sortDirection' = "asc"
  /\ dateRangeStart' = NoDate
  /\ dateRangeEnd' = NoDate
  /\ dateRangeType' = "pickup"
  /\ localStorage' = saveToStorage(localStorage, "orders", orders', quotaExceeded).store
  /\ event' = [type |-> "mount"]
  /\ UNCHANGED <<timeZone, now, quotaExceeded, pageEmployees, equipment, calendarVars>>

\* ----------------------------------------------------------- specifications
InitCalendar ==
  /\ viewMode = "week"
  /\ currentDate = now
  /\ scheduledOrders = <<>>
  /\ draggedOrder = Null
  /\ draggedScheduledOrder = Null
  /\ dragSource = "none"

InitView ==
  /\ activeTab = "all"
  /\ searchQuery = ""
  /\ sortField = NullString
  /\ sortDirection = "asc"
  /\ dateRangeStart = NoDate
  /\ dateRangeEnd = NoDate
  /\ dateRangeType = "pickup"

\* the employees and the equipment found in storage at page load
StoredEmployees ==
  <<Employee("EMP-1", "Ann", "Driver"), Employee("EMP-2", "Eve", "Dispatcher"),
    Employee("EMP-3", "Bob", "Driver")>>
StoredEquipment == <<EquipmentItem("EQ-1", "Truck"), EquipmentItem("EQ-2", "Trailer")>>

\* the storage after the order page's mount effect has saved what was loaded,
\* the employees and equipment pages not opened yet
InitStore ==
  /\ quotaExceeded = FALSE
  /\ employees = StoredEmployees
  /\ pageEmployees = <<>>
  /\ equipment = <<>>
  /\ localStorage = [key \in StorageKeys |->
                      CASE key = "orders" -> JSONstringify(orders)
                        [] key = "employees" -> JSONstringify(StoredEmployees)
                        [] OTHER -> NoItem]

InitPageState ==
  /\ selectedOrders = {}
  /\ isAssignMode = FALSE
  /\ selectedDriver = NullString
  /\ InitView
  /\ isFormOpen = FALSE
  /\ editingOrderId = NullId
  /\ event = [type |-> "init"]

InitPage ==
  /\ InitPageState
  /\ InitStore

\* the page after construction: the orders are what localStorage holds
Init ==
  /\ timeZone = LocalOffsetHours
  /\ now \in StartTimes
  /\ orders \in SavedOrderLists(StoredIds)
  /\ InitPage
  /\ InitCalendar

DragNext ==
  \/ \E k \in 1..MaxOrders : DragStartSidebar(k)
  \/ \E date \in TargetDates, timeSlot \in TargetSlots : DragStartBlock(date, timeSlot)
  \/ \E date \in TargetDates, timeSlot \in TargetSlots : DropOnSlot(date, timeSlot)
  \/ DropOnSidebar
  \/ DragCancel

\* the scheduling calendar over an order collection that changes under it
Next ==
  \/ DragNext
  \/ \E mode \in {"week", "day"} : SetViewMode(mode)
  \/ \E k \in 1..MaxOrders, confirmed \in BOOLEAN : SidebarDelete(k, confirmed)
  \/ \E k \in 1..MaxOrders : HandleSelectOrder(k)
  \/ \E confirmed \in BOOLEAN : HandleDeleteSelected(confirmed)
  \/ \E payload \in Payloads(StoredIds), confirmed \in BOOLEAN :
       HandleImportOrders(payload, confirmed)

Spec == Init /\ [][Next]_vars

\* the order page: form, selection, driver panel, bulk actions and import, the
\* clock standing still
NextOrders ==
  \/ HandleCreateOrder
  \/ \E k \in 1..MaxOrders : HandleEditOrder(k)
  \/ HandleCloseForm
  \/ \E formData \in FormData : HandleSubmit(formData)
  \/ \E k \in 1..MaxOrders : HandleSelectOrder(k)
  \/ HandleSelectAll
  \/ ToggleAssignMode
  \/ ClearSelection
  \/ \E driverId \in {"EMP-1"} : HandleDriverClick(driverId)
  \/ HandleUnassignOrders
  \/ \E confirmed \in BOOLEAN : HandleMarkAsFinished(confirmed)
  \/ \E confirmed \in BOOLEAN : HandleDeleteSelected(confirmed)
  \/ \E payload \in Payloads({<<0>>}), confirmed \in BOOLEAN :
       HandleImportOrders(payload, confirmed)

InitOrders ==
  /\ timeZone = LocalOffsetHours
  /\ now = LocalDate(2024, 5, 1, 10)
  /\ orders \in SavedOrderLists({<<0>>})
  /\ InitPage
  /\ InitCalendar

SpecOrders == InitOrders /\ [][NextOrders]_vars

\* order creation, test-data generation and bulk delete under a running clock
NextClock ==
  \/ Tick
  \/ HandleCreateOrder
  \/ HandleCloseForm
  \/ \E formData \in FormData : HandleSubmit(formData)
  \/ \E count \in BatchSizes : HandleGenerateTestOrders(count)
  \/ \E k \in 1..MaxOrders : HandleSelectOrder(k)
  \/ \E confirmed \in BOOLEAN : HandleDeleteSelected(confirmed)

SpecClock == InitOrders /\ [][NextClock]_vars

\* selection, driver panel and bulk status / driver actions over stored orders
NextAssign ==
  \/ \E k \in 1..MaxOrders : HandleSelectOrder(k)
  \/ HandleSelectAll
  \/ ToggleAssignMode
  \/ ClearSelection
  \/ \E driverId \in Drivers : HandleDriverClick(driverId)
  \/ HandleUnassignOrders
  \/ \E confirmed \in BOOLEAN : HandleMarkAsFinished(confirmed)

InitAssign ==
  /\ timeZone = LocalOffsetHours
  /\ now = LocalDate(2024, 5, 1, 10)
  /\ orders \in SavedOrderLists({<<n>> : n \in 0..(MaxOrders - 1)})
  /\ InitPage
  /\ InitCalendar

SpecAssign == InitAssign /\ [][NextAssign]_vars

\* the calendar's drags next to the bulk driver / status actions
NextScheduleAssign ==
  \/ DragNext
  \/ HandleSelectAll
  \/ ToggleAssignMode
  \/ \E driverId \in {"EMP-1"} : HandleDriverClick(driverId)
  \/ HandleUnassignOrders
  \/ \E confirmed \in BOOLEAN : HandleMarkAsFinished(confirmed)

InitScheduleAssign ==
  /\ timeZone = LocalOffsetHours
  /\ now = LocalDate(2024, 5, 1, 10)
  /\ orders \in SavedOrderLists(StoredIds)
  /\ InitPage
  /\ InitCalendar

SpecScheduleAssign == InitScheduleAssign /\ [][NextScheduleAssign]_vars

\* stored order lists of every status / driver combination and two customers
TableOrders(n) ==
  {OrderOf(<<n>>, status, driverId, Undefined, d[1], d[2], d[3], d[4]) :
     status \in {"active", "finished"}, driverId \in {Undefined, "EMP-1"},
     d \in {<<"Acme", 100, <<2024, 6, 3, 10>>, <<2024, 6, 3, 14>>>>,
            <<"Zeta", 50, <<2024, 6, 2, 8>>, <<2024, 6, 4, 9>>>>}}
TableOrderLists ==
  UNION {{os \in [1..n -> UNION {TableOrders(k) : k \in 0..(n - 1)}] :
            \A i \in 1..n : os[i] \in TableOrders(i - 1)} : n \in 0..MaxOrders}

\* the order table: tabs, search box, driver filter and sortable headers
NextTable ==
  \/ \E tab \in Tabs : SetActiveTab(tab)
  \/ \E query \in SearchQueries : SetSearchQuery(query)
  \/ \E driverId \in {"EMP-1"} : HandleDriverClick(driverId)
  \/ \E field \in SortHeaders : HandleSort(field)

InitTable ==
  /\ timeZone = LocalOffsetHours
  /\ now = LocalDate(2024, 5, 1, 10)
  /\ orders \in TableOrderLists
  /\ InitPage
  /\ InitCalendar

SpecTable == InitTable /\ [][NextTable]_vars

\* stored order lists with pickup / delivery times around the range dates
DatedOrders(n) ==
  {OrderOf(<<n>>, "active", Undefined, Undefined, "Acme", 100, d[1], d[2]) :
     d \in {<<<<2024, 6, 3, 0>>, <<2024, 6, 3, 23>>>>,
            <<<<2024, 6, 3, 10>>, <<2024, 6, 4, 0>>>>,
            <<<<2024, 6, 2, 23>>, <<2024, 6, 3, 10>>>>,
            <<<<2024, 6, 4, 0>>, <<2024, 6, 4, 5>>>>}}
DatedOrderLists ==
  UNION {{os \in [1..n -> UNION {DatedOrders(k) : k \in 0..(n - 1)}] :
            \A i \in 1..n : os[i] \in DatedOrders(i - 1)} : n \in 0..MaxOrders}

\* the date range filter, the browser in a zone west or east of Greenwich
NextDateRange ==
  \/ \E type \in {"pickup", "delivery"} : SetDateRangeType(type)
  \/ \E date \in RangeDates \cup {NoDate} : SetDateRangeStart(date)
  \/ \E date \in RangeDates \cup {NoDate} : SetDateRangeEnd(date)
  \/ ClearDateRange

InitDateRange ==
  /\ timeZone \in TimeZones
  /\ now = LocalDate(2024, 5, 1, 10)
  /\ orders \in DatedOrderLists
  /\ InitPage
  /\ InitCalendar

SpecDateRange == InitDateRange /\ [][NextDateRange]_vars

\* the calendar's toolbar under a running clock
NextNav ==
  \/ Tick
  \/ \E direction \in {"prev", "next"} : NavigateDate(direction)
  \/ GoToToday
  \/ \E mode \in {"day", "week"} : SetViewMode(mode)

InitNav ==
  /\ timeZone = LocalOffsetHours
  /\ now \in NavStartTimes \cup {LocalDate(2024, 5, 1, 0)}
  /\ orders \in SavedOrderLists({<<0>>})
  /\ InitPage
  /\ InitCalendar

SpecNav == InitNav /\ [][NextNav]_vars

\* the texts found under a key the page did not write itself
ForeignTexts ==
  {NoItem, EmptyText, CorruptText, JSONstringify(<<>>), JSONstringify(StoredEmployees)}

\* the order page over a storage that can refuse writes and hold corrupt text
NextStorage ==
  \/ MountOrderManagement
  \/ QuotaChange
  \/ \E text \in ForeignTexts : StorageWrite("employees", text)
  \/ loadEmployees
  \/ \E count \in BatchSizes : HandleGenerateTestOrders(count)
  \/ \E k \in 1..MaxOrders : HandleSelectOrder(k)
  \/ HandleUnassignOrders
  \/ \E confirmed \in BOOLEAN : HandleDeleteSelected(confirmed)
  \/ \E payload \in Payloads({<<0>>}), confirmed \in BOOLEAN :
       HandleImportOrders(payload, confirmed)

\* the page after its mount: the storage held no orders, corrupt text or a
\* saved list, and the mount effect has written back what was loaded unless
\* the write failed
InitStorage ==
  /\ timeZone = LocalOffsetHours
  /\ now = LocalDate(2024, 5, 1, 10)
  /\ InitPageState
  /\ InitCalendar
  /\ quotaExceeded \in BOOLEAN
  /\ pageEmployees = StoredEmployees
  /\ equipment = StoredEquipment
  /\ \E before \in {NoItem, CorruptText} \cup {JSONstringify(os) : os \in SavedOrderLists({<<0>>})},
        text \in ForeignTexts :
       LET found == [key \in StorageKeys |->
                       CASE key = "orders" -> before
                         [] key = "employees" -> text
                         [] key = "equipment" -> JSONstringify(StoredEquipment)
                         [] OTHER -> NoItem]
       IN /\ orders = AsOrders(loadFromStorage(found, "orders", <<>>).value)
          /\ employees = AsEmployees(loadFromStorage(found, "employees", <<>>).value)
          /\ localStorage = saveToStorage(found, "orders", orders, quotaExceeded).store

SpecStorage == InitStorage /\ [][NextStorage]_vars

\* the delete buttons of the three pages
NextDelete ==
  \/ \E k \in 1..MaxOrders : HandleSelectOrder(k)
  \/ \E confirmed \in BOOLEAN : HandleDeleteSelected(confirmed)
  \/ \E employeeId \in {"EMP-1", "EMP-2", "EMP-3"}, confirmed \in BOOLEAN :
       HandleDeleteEmployee(employeeId, confirmed)
  \/ \E equipmentId \in {"EQ-1", "EQ-2"}, confirmed \in BOOLEAN :
       HandleDeleteEquipment(equipmentId, confirmed)

InitDelete ==
  /\ timeZone = LocalOffsetHours
  /\ now = LocalDate(2024, 5, 1, 10)
  /\ orders \in SavedOrderLists({<<n>> : n \in 0..(MaxOrders - 1)})
  /\ InitPageState
  /\ InitCalendar
  /\ quotaExceeded = FALSE
  /\ employees = StoredEmployees
  /\ pageEmployees = StoredEmployees
  /\ equipment = StoredEquipment
  /\ localStorage = [key \in StorageKeys |->
                      CASE key = "orders" -> JSONstringify(orders)
                        [] key = "employees" -> JSONstringify(StoredEmployees)
                        [] key = "equipment" -> JSONstringify(StoredEquipment)
                        [] OTHER -> NoItem]

SpecDelete == InitDelete /\ [][NextDelete]_vars

\* the employees page (in this or another tab) next to the order page's
\* refresh timer, which keeps firing
NextEmployees ==
  \/ Tick
  \/ loadEmployees
  \/ \E role \in EmployeeRoles : HandleSubmitEmployee(role)
  \/ \E i \in 1..MaxEmployees, confirmed \in BOOLEAN :
       /\ i \in DOMAIN pageEmployees
       /\ HandleDeleteEmployee(pageEmployees[i].id, confirmed)
  \/ \E text \in ForeignTexts : StorageWrite("employees", text)

InitEmployees ==
  /\ timeZone = LocalOffsetHours
  /\ now = LocalDate(2024, 5, 1, 10)
  /\ orders = <<>>
  /\ InitPageState
  /\ InitCalendar
  /\ quotaExceeded = FALSE
  /\ employees = StoredEmployees
  /\ pageEmployees = StoredEmployees
  /\ equipment = <<>>
  /\ localStorage = [key \in StorageKeys |->
                      CASE key = "orders" -> JSONstringify(orders)
                        [] key = "employees" -> JSONstringify(StoredEmployees)
                        [] OTHER -> NoItem]

SpecEmployees == InitEmployees /\ [][NextEmployees]_vars /\ WF_vars(loadEmployees)

\* ============================================================== the claims
\* helpers of the statements (independent of the handlers above)
EntryIndexes == DOMAIN scheduledOrders
EntriesAt(scheduled, dateStr, timeSlot) ==
  {i \in DOMAIN scheduled : scheduled[i].date = dateStr /\ scheduled[i].timeSlot = timeSlot}
EntriesOf(scheduled, orderId) ==
  {i \in DOMAIN scheduled : scheduled[i].orderId = orderId}
\* `seq` restricted to the index set I, relative order kept
RECURSIVE Restrict(_, _)
Restrict(seq, I) ==
  IF seq = <<>> THEN <<>>
  ELSE LET front == Restrict(SubSeq(seq, 1, Len(seq) - 1), I \ {Len(seq)})
       IN IF Len(seq) \in I THEN Append(front, seq[Len(seq)]) ELSE front
EntriesOfOthers(scheduled, orderId) ==
  Restrict(scheduled, DOMAIN scheduled \ EntriesOf(scheduled, orderId))

\* a calendar drop / sidebar drop is the step being taken
IsDrop == event'.type = "drop"
IsSidebarDrop == event'.type = "sidebardrop"

\* C1: no two ScheduledOrder entries share the same (date, timeSlot) pair
C1_SlotHoldsAtMostOneOrder ==
  \A i, j \in EntryIndexes :
    (scheduledOrders[i].date = scheduledOrders[j].date
       /\ scheduledOrders[i].timeSlot = scheduledOrders[j].timeSlot) => i = j

\* C2: at most one ScheduledOrder entry exists for each order id
C2_OrderScheduledAtMostOnce ==
  \A i, j \in EntryIndexes :
    scheduledOrders[i].orderId = scheduledOrders[j].orderId => i = j

\* C2 witness: an order with an entry has just been moved to another slot
C2_Witness ==
  /\ event.type = "drop"
  /\ event.from # Null
  /\ <<event.from.date, event.from.timeSlot>> # <<event.date, event.timeSlot>>
  /\ \E i \in EntryIndexes :
       scheduledOrders[i] = ScheduledOrder(event.order.id, event.date, event.timeSlot)

\* C3: every ScheduledOrder entry's orderId is the id of an order of the
\* current order collection (a deleted order leaves no entry behind)
C3_EntriesReferenceOrders ==
  \A i \in EntryIndexes : scheduledOrders[i].orderId \in Ids(orders)

\* C4: a drop of a dragged order on a (date, timeSlot) that holds an entry of
\* a different order leaves the ScheduledOrder collection unchanged
C4_OccupiedSlotRejectsDrop ==
  [][(/\ IsDrop
      /\ draggedOrder # Null
      /\ \E i \in EntriesAt(scheduledOrders, event'.date, event'.timeSlot) :
           scheduledOrders[i].orderId # draggedOrder.id)
     => scheduledOrders' = scheduledOrders]_vars

\* C5: an order scheduled at slot A and dropped on an empty slot B # A leaves
\* A without entry, sits at B with exactly one entry, other entries unchanged
C5_MoveToEmptySlot ==
  [][(/\ IsDrop
      /\ draggedOrder # Null
      /\ draggedScheduledOrder # Null
      /\ <<draggedScheduledOrder.date, draggedScheduledOrder.timeSlot>>
            # <<event'.date, event'.timeSlot>>
      /\ EntriesAt(scheduledOrders, event'.date, event'.timeSlot) = {})
     => (/\ EntriesAt(scheduledOrders', draggedScheduledOrder.date,
                      draggedScheduledOrder.timeSlot) = {}
         /\ \E i \in EntriesAt(scheduledOrders', event'.date, event'.timeSlot) :
              scheduledOrders'[i].orderId = draggedOrder.id
         /\ Cardinality(EntriesOf(scheduledOrders', draggedOrder.id)) = 1
         /\ EntriesOfOthers(scheduledOrders', draggedOrder.id)
              = EntriesOfOthers(scheduledOrders, draggedOrder.id))]_vars

\* C6: a drop of an order on the (date, timeSlot) it already occupies leaves
\* the ScheduledOrder collection unchanged, entries and their order
C6_SameSlotDropIsNoOp ==
  [][(/\ IsDrop
      /\ draggedOrder # Null
      /\ draggedScheduledOrder # Null
      /\ <<draggedScheduledOrder.date, draggedScheduledOrder.timeSlot>>
            = <<event'.date, event'.timeSlot>>)
     => scheduledOrders' = scheduledOrders]_vars

\* C6 witness: an order was dropped on its own slot while a later entry exists
C6_Witness ==
  /\ event.type = "drop"
  /\ event.from # Null
  /\ <<event.from.date, event.from.timeSlot>> = <<event.date, event.timeSlot>>
  /\ \E i, j \in EntryIndexes :
       i < j /\ scheduledOrders[i] = event.from /\ scheduledOrders[i].orderId = event.order.id

\* C7: a sidebar drop of a dragged scheduled order removes exactly that
\* order's entry and keeps every other entry; a sidebar drop of an order
\* without entry leaves the collection unchanged
C7_SidebarDropUnschedules ==
  [][IsSidebarDrop =>
       IF draggedOrder # Null /\ draggedScheduledOrder # Null
       THEN /\ EntriesOf(scheduledOrders', draggedOrder.id) = {}
            /\ scheduledOrders' = EntriesOfOthers(scheduledOrders, draggedOrder.id)
       ELSE scheduledOrders' = scheduledOrders]_vars

\* C7 witness: a scheduled order was dropped on the sidebar, another entry stays
C7_Witness ==
  /\ event.type = "sidebardrop"
  /\ event.from # Null
  /\ EntriesOf(scheduledOrders, event.order.id) = {}
  /\ scheduledOrders # <<>>

\* C8: the unscheduled list is the orders without ScheduledOrder entry, in
\* the relative order of the order collection
C8_UnscheduledIsStableFilter ==
  unscheduledOrders =
    Restrict(orders, {i \in DOMAIN orders : EntriesOf(scheduledOrders, orders[i].id) = {}})

\* C8 witness: the first order holds an entry and the second order, which
\* does not, is the whole sidebar list
C8_Witness ==
  /\ Len(orders) = 2
  /\ EntriesOf(scheduledOrders, orders[1].id) # {}
  /\ unscheduledOrders = <<orders[2]>>

\* C9: through create, edit, assign, unassign, mark-as-finished and delete an
\* order's status only goes from active to finished: a finished order stays
\* finished, a new order is active, a delete leaves the surviving records as
\* they were
C9_StatusOnlyActiveToFinished ==
  [][event'.type # "import" =>
       IF Len(orders') >= Len(orders)
       THEN /\ \A i \in DOMAIN orders :
                 /\ orders'[i].id = orders[i].id
                 /\ orders'[i].status \in {"active", "finished"}
                 /\ orders[i].status = "finished" => orders'[i].status = "finished"
            /\ \A i \in DOMAIN orders' \ DOMAIN orders : orders'[i].status = "active"
       ELSE \A i \in DOMAIN orders' : \E j \in DOMAIN orders : orders'[i] = orders[j]]_vars

\* C9 witness: the edit form was submitted for an order that is finished
C9_Witness ==
  /\ event.type = "edit"
  /\ \E i \in DOMAIN orders :
       /\ orders[i].id = event.id
       /\ orders[i].status = "finished"
       /\ orders[i].employeeId = "EMP-2"

\* C10: the ids of the order collection are pairwise distinct, whatever the
\* clock reads when orders are created or generated, and no operation other
\* than a delete changes the id of an existing order
C10_OrderIdsDistinctAndImmutable ==
  /\ [](\A i, j \in DOMAIN orders : orders[i].id = orders[j].id => i = j)
  /\ [][Len(orders') >= Len(orders) =>
          \A i \in DOMAIN orders : orders'[i].id = orders[i].id]_vars

\* the fields of an order other than `field` are the same in a and b
SameExcept(a, b, field) ==
  /\ DOMAIN a = DOMAIN b
  /\ \A f \in DOMAIN a \ {field} : a[f] = b[f]

\* C11: a driver click in assign mode with a non-empty selection sets
\* driverId to that driver on every selected order, whatever its previous
\* driver and status, and leaves every unselected order and every other
\* field of the selected orders unchanged
C11_AssignSetsDriverOnSelection ==
  [][(event'.type = "assign" /\ isAssignMode /\ selectedOrders # {}) =>
       /\ Len(orders') = Len(orders)
       /\ \A i \in DOMAIN orders :
            IF orders[i].id \in selectedOrders
            THEN /\ orders'[i].driverId = event'.driver
                 /\ SameExcept(orders'[i], orders[i], "driverId")
            ELSE orders'[i] = orders[i]]_vars

\* C11 witness: the assignment went to a finished order, and an unselected
\* order keeps the other driver
C11_Witness ==
  /\ event.type = "assign"
  /\ \E i, j \in DOMAIN orders :
       /\ orders[i].id \in event.ids
       /\ orders[i].status = "finished"
       /\ orders[i].driverId = event.driver
       /\ orders[j].id \notin event.ids
       /\ orders[j].driverId \in Drivers \ {event.driver}

\* C12: unassign clears driverId on every selected order and changes nothing
\* else: no unselected order, no other field of a selected order
C12_UnassignClearsDriverOnly ==
  [][event'.type = "unassign" =>
       /\ Len(orders') = Len(orders)
       /\ \A i \in DOMAIN orders :
            IF orders[i].id \in selectedOrders
            THEN /\ ~Truthy(orders'[i].driverId)
                 /\ SameExcept(orders'[i], orders[i], "driverId")
            ELSE orders'[i] = orders[i]]_vars

\* C12 witness: a finished order was unassigned while an unselected order
\* keeps its driver
C12_Witness ==
  /\ event.type = "unassign"
  /\ \E i, j \in DOMAIN orders :
       /\ orders[i].id \in event.ids
       /\ orders[i].status = "finished"
       /\ ~Truthy(orders[i].driverId)
       /\ orders[j].id \notin event.ids
       /\ orders[j].driverId \in Drivers

DisplayedIds == {filteredOrders[i].id : i \in DOMAIN filteredOrders}
OtherFiltersDefault ==
  /\ ~Truthy(selectedDriver)
  /\ searchQuery = ""
  /\ dateRangeStart = NoDate
  /\ dateRangeEnd = NoDate
HasDriver(order) == order.driverId \in Drivers
TabAdmits(order) ==
  \/ activeTab = "all"
  \/ activeTab = "unassigned" /\ ~HasDriver(order)
  \/ activeTab = "assigned" /\ HasDriver(order) /\ order.status # "finished"
  \/ activeTab = "finished" /\ order.status = "finished"

\* C14: an order passes the tab filter under 'all' always, under 'unassigned'
\* iff it has no driverId, under 'assigned' iff it has a driverId and is not
\* finished, under 'finished' iff it is finished: the rows shown are the
\* orders the tab admits among those the other filters pass, and with the
\* other filters at their defaults and no sort they are those orders in stored
\* order
C14_TabFilter ==
  /\ DisplayedIds =
       {orders[i].id : i \in {j \in DOMAIN orders :
           /\ TabAdmits(orders[j])
           /\ matchesDriver(orders[j], selectedDriver)
           /\ matchesSearch(orders[j], searchQuery)}}
  /\ (OtherFiltersDefault /\ sortField = NullString) =>
       filteredOrders = Restrict(orders, {j \in DOMAIN orders : TabAdmits(orders[j])})

\* C14 witness: the assigned tab shows an active order with a driver and hides
\* a finished order with a driver
C14_Witness ==
  /\ activeTab = "assigned"
  /\ OtherFiltersDefault
  /\ Len(orders) = 2
  /\ HasDriver(orders[1]) /\ orders[1].status = "finished"
  /\ HasDriver(orders[2]) /\ orders[2].status = "active"
  /\ filteredOrders = <<orders[2]>>

\* C15: with the tab 'all', no driver filter, an empty search, no date range
\* and no sort field, the rows shown are the full order collection in its
\* original order
C15_DefaultsShowAllInOrder ==
  (activeTab = "all" /\ OtherFiltersDefault /\ sortField = NullString) =>
    filteredOrders = orders

\* C15 witness: the filters are back at their defaults after a change, over
\* two orders that any sort by customer or price would swap
C15_Witness ==
  /\ activeTab = "all" /\ OtherFiltersDefault /\ sortField = NullString
  /\ event.type = "view"
  /\ Len(orders) = 2
  /\ orders[1].customer = "Zeta" /\ orders[2].customer = "Acme"
  /\ orders[1].price < orders[2].price
  /\ Len(filteredOrders) = 2

\* C17: handleSort on the field that is the sort field flips the direction
\* between asc and desc and keeps the field; on another field it sets the
\* sort field to that field and the direction to asc
C17_HandleSort ==
  [][event'.type = "sort" =>
       IF sortField = event'.field
       THEN /\ sortField' = sortField
            /\ sortDirection' # sortDirection
            /\ sortDirection' \in {"asc", "desc"}
       ELSE /\ sortField' = event'.field
            /\ sortDirection' = "asc"]_vars

\* C17 witness: a click on another header while the direction was desc
C17_Witness ==
  /\ event.type = "sort"
  /\ event.before = <<"price", "desc">>
  /\ event.field = "customer"
  /\ sortField = "customer"
  /\ sortDirection = "asc"

RangeField(order) ==
  IF dateRangeType = "pickup" THEN order.pickupTime ELSE order.deliverBeforeTime
DateOf(time) == <<time[1], time[2], time[3]>>
DateBefore(a, b) ==
  \/ a[1] < b[1]
  \/ a[1] = b[1] /\ a[2] < b[2]
  \/ a[1] = b[1] /\ a[2] = b[2] /\ a[3] < b[3]
Shown(order) == \E i \in DOMAIN filteredOrders : filteredOrders[i] = order

\* C16: the end bound of the date range is inclusive through the end of the
\* end date E: an order whose chosen date field falls at any time of day on E
\* (or before E, with no start bound) passes, an order dated after E is
\* excluded, and with no bound on a side no order is excluded on that side
C16_EndDateInclusive ==
  \A i \in DOMAIN orders :
    LET date == DateOf(RangeField(orders[i]))
    IN /\ (dateRangeStart = NoDate /\ dateRangeEnd # NoDate) =>
            (Shown(orders[i]) <=> ~DateBefore(dateRangeEnd, date))
       /\ (dateRangeStart # NoDate /\ dateRangeEnd # NoDate
             /\ DateBefore(dateRangeEnd, date)) => ~Shown(orders[i])
       /\ (dateRangeStart # NoDate /\ dateRangeEnd = NoDate
             /\ DateBefore(dateRangeStart, date)) => Shown(orders[i])
       /\ (dateRangeStart = NoDate /\ dateRangeEnd = NoDate) => Shown(orders[i])

\* helpers of the calendar statements: the local calendar day of an instant
LocalDay(date) == Day(date + LocalOffsetHours)
LocalWeekDay(date) == (LocalDay(date) + 4) % 7
LocalYear(date) == YearFromTime(date + LocalOffsetHours)

\* C19: in week mode the calendar shows 7 consecutive calendar days of which
\* the first is a Sunday and which contain the anchor date; in day mode it
\* shows the anchor date alone
C19_WeekOfAnchor ==
  IF viewMode = "week"
  THEN /\ Len(displayDays) = 7
       /\ LocalWeekDay(displayDays[1]) = 0
       /\ \A i \in 1..6 : LocalDay(displayDays[i + 1]) = LocalDay(displayDays[i]) + 1
       /\ \E i \in 1..7 : LocalDay(displayDays[i]) = LocalDay(currentDate)
  ELSE displayDays = <<currentDate>>

\* C19 witness: a navigation led to a week that starts in one year and ends
\* in the next, the anchor being none of its ends
C19_Witness ==
  /\ viewMode = "week"
  /\ event.type = "nav"
  /\ LocalYear(displayDays[1]) = 2024
  /\ LocalYear(displayDays[7]) = 2025
  /\ LocalDay(currentDate) \notin {LocalDay(displayDays[1]), LocalDay(displayDays[7])}

\* C20: Previous / Next shift the anchor by 7 days in week mode and by 1 day
\* in day mode, earlier or later (so that next followed by prev restores the
\* anchor, across month and year ends too); Today sets the anchor to the
\* current date; a change of the view mode leaves the anchor as it is
C20_Navigation ==
  /\ [](\A mode \in {"day", "week"} :
          navigateDate(navigateDate(currentDate, mode, "next"), mode, "prev") = currentDate)
  /\ [][/\ event'.type = "nav" =>
             /\ viewMode' = viewMode
             /\ currentDate' - currentDate =
                  24 * (IF viewMode = "week" THEN 7 ELSE 1)
                     * (IF event'.direction = "next" THEN 1 ELSE -1)
        /\ event'.type = "today" => currentDate' = now
        /\ event'.type = "viewmode" => currentDate' = currentDate]_vars

\* C20 witness: Previous brought the anchor back from the next year to the
\* day of the page load
C20_Witness ==
  /\ event.type = "nav"
  /\ event.direction = "prev"
  /\ LocalYear(event.from) = 2025
  /\ LocalYear(currentDate) = 2024
  /\ currentDate = now

\* helpers of the time-slot statement: the label HH:MM of a minute of the day
TwoDigits(n) == <<DigitChars[(n \div 10) + 1], DigitChars[(n % 10) + 1]>>
LabelOfMinute(minute) == TwoDigits(minute \div 60) \o <<":">> \o TwoDigits(minute % 60)

C22_StorageNeverRaises ==
  \A key \in StorageKeys, defaultValue \in {<<>>, StoredEquipment} :
    LET loaded == loadFromStorage(localStorage, key, defaultValue)
        saved == saveToStorage(localStorage, key, orders, quotaExceeded)
    IN /\ ~loaded.raised
       /\ localStorage[key] \in {NoItem, EmptyText, CorruptText} =>
            loaded.value = defaultValue
       /\ localStorage[key] \notin {NoItem, EmptyText, CorruptText} =>
            JSONstringify(loaded.value) = localStorage[key]
       /\ ~saved.raised

\* C22 witness: the page was loaded over corrupt orders text and an employees
\* key without usable text, while every write fails: both lists are the
\* default and the corrupt text is still there
C22_Witness ==
  /\ event.type = "mount"
  /\ quotaExceeded
  /\ localStorage["orders"] = CorruptText
  /\ localStorage["employees"] \in {NoItem, EmptyText}
  /\ orders = <<>>
  /\ employees = <<>>

C23_ImportReplacesOrLeaves ==
  [][event'.type = "import" =>
       \A payload \in Payloads({<<0>>}), confirmed \in BOOLEAN :
         HandleImportOrders(payload, confirmed) =>
           IF payload.kind = "array" /\ confirmed
           THEN orders' = payload.data
           ELSE orders' = orders]_vars

\* C23 witness: an accepted import of one order replaced a collection that
\* held a selected order of another id
C23_Witness ==
  /\ event.type = "import"
  /\ event.accepted
  /\ Len(orders) = 1
  /\ selectedOrders # {}
  /\ selectedOrders \cap Ids(orders) = {}

\* C24: a delete removes an order, employee or equipment record only after
\* the user confirms: declined, the collection (and for the bulk delete the
\* selection) stays as it is; confirmed, exactly the targeted records go and
\* all others remain, in their order
C24_DeleteOnlyAfterConfirm ==
  [][/\ event'.type = "delete" =>
          IF event'.confirmed
          THEN orders' = Restrict(orders, {i \in DOMAIN orders :
                                             orders[i].id \notin selectedOrders})
          ELSE orders' = orders /\ selectedOrders' = selectedOrders
     /\ event'.type = "deleteemployee" =>
          IF event'.confirmed
          THEN pageEmployees' = Restrict(pageEmployees, {i \in DOMAIN pageEmployees :
                                           pageEmployees[i].id # event'.id})
          ELSE pageEmployees' = pageEmployees
     /\ event'.type = "deleteequipment" =>
          IF event'.confirmed
          THEN equipment' = Restrict(equipment, {i \in DOMAIN equipment :
                                       equipment[i].id # event'.id})
          ELSE equipment' = equipment]_vars

\* C24 witness: a confirmed delete took the middle employee and left the two
\* others, one order and one equipment record being left
C24_Witness ==
  /\ event.type = "deleteemployee"
  /\ event.confirmed
  /\ event.id = "EMP-2"
  /\ pageEmployees = <<StoredEmployees[1], StoredEmployees[3]>>
  /\ Len(orders) = 1
  /\ Len(equipment) = 1

\* helpers of the refresh statement: the employee list the storage holds
StoredEmployeeList ==
  IF localStorage["employees"].kind = "json"
  THEN AsEmployees(localStorage["employees"].array)
  ELSE <<>>

\* C25: the order page never keeps a stale employee list for ever: whenever
\* its in-memory employees differ from the stored list, they (and the drivers
\* derived from them) eventually equal the stored list, the refresh timer
\* firing again and again
C25_EmployeesEventuallyFresh ==
  (employees # StoredEmployeeList) ~>
    (/\ employees = StoredEmployeeList
     /\ drivers = SelectSeq(StoredEmployeeList, LAMBDA e : e.role = "Driver"))

\* C25 witness: a refresh brought a driver created on the employees page into
\* the order page's lists
C25_Witness ==
  /\ event.type = "loademployees"
  /\ employees = StoredEmployeeList
  /\ \E i \in DOMAIN drivers : drivers[i].name = "Kim"

\* C26: the drop gate treats a (date, timeSlot) as occupied exactly when some
\* ScheduledOrder entry has that (date, timeSlot): the lookup returns an
\* order for a cell if and only if the slot holds an entry
C26_LookupIffEntry ==
  \A date \in TargetDates, timeSlot \in TargetSlots :
    hasOrder(date, timeSlot) <=>
      EntriesAt(scheduledOrders, DateStrOf[date], timeSlot) # {}

\* C28: drag state is cleaned up after every drag: whenever no drag is in
\* progress, draggedOrder and draggedScheduledOrder are both null, however
\* the drag ended and wherever it started
C28_DragStateCleared ==
  dragSource = "none" => draggedOrder = Null /\ draggedScheduledOrder = Null

\* C29: assign mode is active only while at least one order is selected, so
\* a driver click always assigns the selection or toggles the driver filter
C29_AssignModeNeedsSelection ==
  isAssignMode => selectedOrders # {}

\* C30: the selected order-id set is a subset of the ids of the orders
\* currently in the registry
C30_SelectionWithinRegistry ==
  selectedOrders \subseteq Ids(orders)

====
